---- MODULE Spec2Model ----
(***************************************************************************)
(* rgb-ctrl: the real-time state engine of src/main.rs.                    *)
(*                                                                         *)
(* AppState (mode, input history, snake, food, ripples, timers) is one     *)
(* record, app_state, as it sits behind the Arc<Mutex<..>> of main().      *)
(* handle_input, update, step_snake, reset_snake and spawn_food are        *)
(* operators from a state to the SET of states the call can end in (the    *)
(* random number generator is the only source of nondeterminism).          *)
(* Time is the millisecond clock `now`; an Instant is the value of the     *)
(* clock when it was taken and t.elapsed() is now - t.                     *)
(***************************************************************************)
EXTENDS Integers, Sequences, FiniteSets, TLC

VARIABLES
    app_state,   \* the AppState behind Arc<Mutex<..>>
    now,         \* the monotonic clock, in milliseconds
    typed,       \* key codes of the key presses read from the input stream so far
    tick_count,  \* render periods started
    lock,        \* holder of the state mutex: "free", "input" or "render"
    input_pc,    \* input task: "open", "read", "lock", "handle", "exited"
    event_code,  \* code of the key press the input task is delivering
    render_pc,   \* render task: "tick", "lock_update", "update", "lock_frame", "push"
    dev,         \* devices of this period already pushed
    io,          \* "pending" while a set_leds call is in flight, else "idle"
    pushed       \* kinds of the devices set_leds was called on in this period

vars == <<app_state, now, typed, tick_count, lock, input_pc, event_code,
          render_pc, dev, io, pushed>>

main_vars == <<lock, input_pc, event_code, render_pc, dev, io, pushed>>

\* ---------------------------------------------------------------- bounds
\* Spec: arrow keys the input stream carries after the cheat sequence.
MaxKeys == 3
\* Spec: render periods of a run.
MaxTicks == 5
\* SpecCheat: arrow keys between the two cheat entries, and render periods.
MaxCheatKeys == 4
MaxCheatTicks == 2
\* SpecAmbient: key presses and render periods of a run.
MaxAmbientKeys == 2
MaxAmbientTicks == 13
\* SpecIdle: arrow keys after the cheat sequence, and render periods spent
\* in Ambient mode (those of a game and of its GameOver hold are not bounded).
MaxIdleKeys == 1
MaxIdleTicks == 3
\* SpecFull: arrow keys and render periods of the end of a perfect game.
MaxFullKeys == 1
MaxFullTicks == 4
\* SpecTimer: arrow keys before the next cheat entry, and render periods.
MaxTimerKeys == 1
MaxTimerTicks == 3
\* SpecKeys: key presses after the cheat sequence, and render periods.
MaxDirKeys == 2
MaxDirTicks == 2
\* SpecMain: arrow keys after the cheat sequence, and render periods.
MaxMainKeys == 1
MaxMainTicks == 3

\* --------------------------------------------------------- configuration
GRID_WIDTH == 22
GRID_HEIGHT == 6
TICK_RATE_MS == 30

KEY_W == 17
KEY_A == 30
KEY_S == 31
KEY_D == 32
KEY_UP == 103
KEY_DOWN == 108
KEY_LEFT == 105
KEY_RIGHT == 106

\* Values the random number generator is observed to return: a subset of
\* 0..GRID_WIDTH-1 and of 0..GRID_HEIGHT-1 that has cells on the freshly
\* reset snake ((4,3)), next to its head ((6,3), (6,2)) and far from it.
RandXs == {0, 4, 6}
RandYs == {2, 3}

random_range(lo, hi, draws) == {v \in draws : lo <= v /\ v < hi}

\* ------------------------------------------------------------ data model
Pt(px, py) == [x |-> px, y |-> py]

None == <<>>
Some(t) == <<t>>

Contains(seq, e) == \E i \in 1..Len(seq) : seq[i] = e

\* ----------------------------------------------------------------- utils
key_to_grid(code) ==
    IF code = 1 THEN {<<0, 0>>}
    ELSE IF code \in 59..68 THEN {<<code - 59 + 2, 0>>}
    ELSE IF code = 41 THEN {<<0, 1>>}
    ELSE IF code \in 2..13 THEN {<<code - 1, 1>>}
    ELSE IF code = 15 THEN {<<0, 2>>}
    ELSE IF code \in 16..25 THEN {<<code - 15, 2>>}
    ELSE IF code = 58 THEN {<<0, 3>>}
    ELSE IF code \in 30..38 THEN {<<code - 29, 3>>}
    ELSE IF code = 42 THEN {<<0, 4>>}
    ELSE IF code \in 44..50 THEN {<<code - 43, 4>>}
    ELSE IF code = 29 THEN {<<0, 5>>}
    ELSE IF code = 103 THEN {<<19, 4>>}
    ELSE IF code = 108 THEN {<<19, 5>>}
    ELSE IF code = 105 THEN {<<18, 5>>}
    ELSE IF code = 106 THEN {<<20, 5>>}
    ELSE IF code = 57 THEN {<<10, 5>>}
    ELSE random_range(0, GRID_WIDTH, RandXs) \X random_range(0, GRID_HEIGHT, RandYs)

\* --------------------------------------------------------------- AppState
new(w, h, t) ==
    [ mode              |-> "Ambient",
      width             |-> w,
      height            |-> h,
      input_history     |-> <<>>,
      snake             |-> <<>>,
      food              |-> Pt(0, 0),
      direction         |-> Pt(1, 0),
      snake_timer       |-> 150,
      last_snake_update |-> t,
      ripples           |-> <<>>,
      time_tick         |-> 0,
      game_over_timer   |-> None ]

\* The rejection loop ends with any drawn cell that is not on the snake; it
\* has no outcome (never returns) when every cell that can be drawn is.
\* spawn_food that takes the first cell drawn, on the snake or not.
spawn_food_anywhere(s) ==
    { [s EXCEPT !.food = p] :
        p \in { Pt(px, py) : px \in random_range(0, s.width, RandXs),
                             py \in random_range(0, s.height, RandYs) } }

spawn_food(s) ==
    { [s EXCEPT !.food = p] :
        p \in { q \in { Pt(px, py) : px \in random_range(0, s.width, RandXs),
                                     py \in random_range(0, s.height, RandYs) } :
                ~Contains(s.snake, q) } }

\* reset_snake that also empties the ripple list.
reset_snake_clears_ripples(s) ==
    { [f EXCEPT !.mode = "Snake", !.ripples = <<>>] :
        f \in spawn_food([s EXCEPT !.snake = <<Pt(5, 3), Pt(4, 3), Pt(3, 3)>>,
                                   !.direction = Pt(1, 0)]) }

\* reset_snake that keeps the direction of the previous game.
reset_snake_keeps_direction(s) ==
    { [f EXCEPT !.mode = "Snake"] :
        f \in spawn_food([s EXCEPT !.snake = <<Pt(5, 3), Pt(4, 3), Pt(3, 3)>>]) }

reset_snake(s) ==
    { [f EXCEPT !.mode = "Snake"] :
        f \in spawn_food([s EXCEPT !.snake = <<Pt(5, 3), Pt(4, 3), Pt(3, 3)>>,
                                   !.direction = Pt(1, 0)]) }

seq == <<KEY_UP, KEY_DOWN, KEY_LEFT, KEY_RIGHT, KEY_UP, KEY_DOWN>>

\* The window trimmed at 7 entries for 6.
push_history_late(h, code) ==
    Append(IF Len(h) > 6 THEN Tail(h) ELSE h, code)

push_history(h, code) ==
    Append(IF Len(h) >= 6 THEN Tail(h) ELSE h, code)

\* The match of handle_input without the guards of its arms.
new_dir_unguarded(direction, code) ==
    IF code \in {KEY_UP, KEY_W} THEN Some(Pt(0, -1))
    ELSE IF code \in {KEY_DOWN, KEY_S} THEN Some(Pt(0, 1))
    ELSE IF code \in {KEY_LEFT, KEY_A} THEN Some(Pt(-1, 0))
    ELSE IF code \in {KEY_RIGHT, KEY_D} THEN Some(Pt(1, 0))
    ELSE None

\* The match of handle_input in Snake mode: the first arm whose pattern and
\* guard both hold, None when no arm does.
new_dir(direction, code) ==
    IF code \in {KEY_UP, KEY_W} /\ direction.y # 1 THEN Some(Pt(0, -1))
    ELSE IF code \in {KEY_DOWN, KEY_S} /\ direction.y # -1 THEN Some(Pt(0, 1))
    ELSE IF code \in {KEY_LEFT, KEY_A} /\ direction.x # 1 THEN Some(Pt(-1, 0))
    ELSE IF code \in {KEY_RIGHT, KEY_D} /\ direction.x # -1 THEN Some(Pt(1, 0))
    ELSE None

handle_input(s, code) ==
    LET s1 == [s EXCEPT !.input_history = push_history(@, code)] IN
    IF s1.input_history = seq
    THEN { [r EXCEPT !.input_history = <<>>] : r \in reset_snake(s1) }
    ELSE CASE s1.mode = "Ambient" ->
                { [s1 EXCEPT !.ripples =
                        Append(@, [x |-> g[1], y |-> g[2], age |-> 0, max_age |-> 12])] :
                    g \in key_to_grid(code) }
           [] s1.mode = "Snake" ->
                LET d == new_dir(s1.direction, code) IN
                { IF d # None THEN [s1 EXCEPT !.direction = d[1]] ELSE s1 }
           [] s1.mode = "GameOver" -> { s1 }

\* step_snake without the self-collision test.
step_snake_through_body(s, t) ==
    LET head == s.snake[1]
        new_head == Pt(head.x + s.direction.x, head.y + s.direction.y)
    IN  IF \/ new_head.x < 0
           \/ new_head.x >= s.width
           \/ new_head.y < 0
           \/ new_head.y >= s.height
        THEN { [s EXCEPT !.mode = "GameOver", !.game_over_timer = Some(t)] }
        ELSE LET s1 == [s EXCEPT !.snake = <<new_head>> \o @] IN
             IF new_head = s.food
             THEN { [f EXCEPT !.snake_timer = IF @ > 50 THEN @ - 2 ELSE @] :
                      f \in spawn_food(s1) }
             ELSE { [s1 EXCEPT !.snake = SubSeq(@, 1, Len(@) - 1)] }

\* step_snake that ends the game without taking the time.
step_snake_no_timestamp(s, t) ==
    LET head == s.snake[1]
        new_head == Pt(head.x + s.direction.x, head.y + s.direction.y)
    IN  IF \/ new_head.x < 0
           \/ new_head.x >= s.width
           \/ new_head.y < 0
           \/ new_head.y >= s.height
           \/ Contains(s.snake, new_head)
        THEN { [s EXCEPT !.mode = "GameOver"] }
        ELSE LET s1 == [s EXCEPT !.snake = <<new_head>> \o @] IN
             IF new_head = s.food
             THEN { [f EXCEPT !.snake_timer = IF @ > 50 THEN @ - 2 ELSE @] :
                      f \in spawn_food(s1) }
             ELSE { [s1 EXCEPT !.snake = SubSeq(@, 1, Len(@) - 1)] }

\* step_snake that shortens the step interval on every food, with no floor.
step_snake_no_floor(s, t) ==
    LET head == s.snake[1]
        new_head == Pt(head.x + s.direction.x, head.y + s.direction.y)
    IN  IF \/ new_head.x < 0
           \/ new_head.x >= s.width
           \/ new_head.y < 0
           \/ new_head.y >= s.height
           \/ Contains(s.snake, new_head)
        THEN { [s EXCEPT !.mode = "GameOver", !.game_over_timer = Some(t)] }
        ELSE LET s1 == [s EXCEPT !.snake = <<new_head>> \o @] IN
             IF new_head = s.food
             THEN { [f EXCEPT !.snake_timer = @ - 2] : f \in spawn_food(s1) }
             ELSE { [s1 EXCEPT !.snake = SubSeq(@, 1, Len(@) - 1)] }

\* step_snake that drops the tail cell on every step, fed or not.
step_snake_always_pops(s, t) ==
    LET head == s.snake[1]
        new_head == Pt(head.x + s.direction.x, head.y + s.direction.y)
    IN  IF \/ new_head.x < 0
           \/ new_head.x >= s.width
           \/ new_head.y < 0
           \/ new_head.y >= s.height
           \/ Contains(s.snake, new_head)
        THEN { [s EXCEPT !.mode = "GameOver", !.game_over_timer = Some(t)] }
        ELSE LET s1 == [s EXCEPT !.snake = <<new_head>> \o SubSeq(@, 1, Len(@) - 1)] IN
             IF new_head = s.food
             THEN { [f EXCEPT !.snake_timer = IF @ > 50 THEN @ - 2 ELSE @] :
                      f \in spawn_food(s1) }
             ELSE { s1 }

step_snake(s, t) ==
    LET head == s.snake[1]
        new_head == Pt(head.x + s.direction.x, head.y + s.direction.y)
    IN  IF \/ new_head.x < 0
           \/ new_head.x >= s.width
           \/ new_head.y < 0
           \/ new_head.y >= s.height
           \/ Contains(s.snake, new_head)
        THEN { [s EXCEPT !.mode = "GameOver", !.game_over_timer = Some(t)] }
        ELSE LET s1 == [s EXCEPT !.snake = <<new_head>> \o @] IN
             IF new_head = s.food
             THEN { [f EXCEPT !.snake_timer = IF @ > 50 THEN @ - 2 ELSE @] :
                      f \in spawn_food(s1) }
             ELSE { [s1 EXCEPT !.snake = SubSeq(@, 1, Len(@) - 1)] }

aged(r) == [r EXCEPT !.age = @ + 1]
\* retain with <= for <.
alive_one_more(r) == r.age <= r.max_age

alive(r) == r.age < r.max_age

\* time_tick counts the increments of 0.15 added so far.
update_ambient(s) ==
    { [s EXCEPT !.time_tick = @ + 1,
                !.ripples = SelectSeq([i \in 1..Len(@) |-> aged(@[i])], alive)] }

\* The step interval compared with > for >=.
update_snake_late(s, t) ==
    IF t - s.last_snake_update > s.snake_timer
    THEN { [r EXCEPT !.last_snake_update = t] : r \in step_snake(s, t) }
    ELSE { s }

update_snake(s, t) ==
    IF t - s.last_snake_update >= s.snake_timer
    THEN { [r EXCEPT !.last_snake_update = t] : r \in step_snake(s, t) }
    ELSE { s }

\* The GameOver arm that clears the timestamp and stays in GameOver.
update_game_over_keeps_mode(s, t) ==
    IF s.game_over_timer # None /\ t - s.game_over_timer[1] >= 5000
    THEN { [s EXCEPT !.game_over_timer = None] }
    ELSE { s }

\* The GameOver hold compared with > for >=.
update_game_over_late(s, t) ==
    IF s.game_over_timer # None /\ t - s.game_over_timer[1] > 5000
    THEN { [s EXCEPT !.mode = "Ambient", !.game_over_timer = None] }
    ELSE { s }

update_game_over(s, t) ==
    IF s.game_over_timer # None /\ t - s.game_over_timer[1] >= 5000
    THEN { [s EXCEPT !.mode = "Ambient", !.game_over_timer = None] }
    ELSE { s }

update(s, t) ==
    CASE s.mode = "Ambient" -> update_ambient(s)
      [] s.mode = "Snake" -> update_snake(s, t)
      [] s.mode = "GameOver" -> update_game_over(s, t)

\* ------------------------------------------------------------ environment
ArrowKeys == {KEY_UP, KEY_DOWN, KEY_LEFT, KEY_RIGHT}

\* Time that can pass between two render periods: the nominal period, a late
\* period that lands exactly on the first step interval (30 + 120 = 150),
\* and a stall as long as the GameOver hold.
Deltas == {TICK_RATE_MS, 120, 5000}

Init ==
    /\ now = 0
    /\ app_state = new(GRID_WIDTH, GRID_HEIGHT, 0)
    /\ typed = <<>>
    /\ tick_count = 0
    /\ lock = "free"
    /\ input_pc = "open"
    /\ event_code = None
    /\ render_pc = "tick"
    /\ dev = 0
    /\ io = "idle"
    /\ pushed = <<>>

\* One key press, with a code among `codes`, reaches the input task, which
\* runs handle_input on the state (lock, call, unlock).
KeyPressFrom(codes) ==
    /\ \E code \in codes :
          /\ app_state' \in handle_input(app_state, code)
          /\ typed' = Append(typed, code)
    /\ UNCHANGED <<now, tick_count>>
    /\ UNCHANGED main_vars

\* One render period, `d` milliseconds after the previous one for some d in
\* `deltas`: the period is counted and update runs on the state (lock, call,
\* unlock).
TickWithin(max_ticks, deltas) ==
    /\ tick_count < max_ticks
    /\ \E d \in deltas :
          /\ now' = now + d
          /\ app_state' \in update(app_state, now')
    /\ tick_count' = tick_count + 1
    /\ UNCHANGED typed
    /\ UNCHANGED main_vars

\* ------------------------------------------------------------------- Spec
\* The game.  The input stream is the cheat sequence followed by up to
\* MaxKeys arrow keys; the cheat sequence is typed before the first render
\* period, and from then on key presses and render periods interleave freely.
StreamKeys(n) ==
    IF n <= Len(seq) THEN {seq[n]}
    ELSE IF n <= Len(seq) + MaxKeys THEN ArrowKeys
    ELSE {}

KeyPress == KeyPressFrom(StreamKeys(Len(typed) + 1))

Tick ==
    /\ Len(typed) >= Len(seq)
    /\ TickWithin(MaxTicks, Deltas)

Next == KeyPress \/ Tick

Spec == Init /\ [][Next]_vars

\* -------------------------------------------------------------- SpecCheat
\* The cheat detector.  The input stream is the cheat sequence, MaxCheatKeys
\* arrow keys, and the cheat sequence again; the first entry is typed before
\* the first render period, and from then on render periods, each a stall of
\* 5 s, come at any point, so that the second entry starts in Snake, GameOver
\* or Ambient mode with any history of arrow keys.
CheatStreamKeys(n) ==
    IF n <= Len(seq) THEN {seq[n]}
    ELSE IF n <= Len(seq) + MaxCheatKeys THEN ArrowKeys
    ELSE IF n <= 2 * Len(seq) + MaxCheatKeys THEN {seq[n - Len(seq) - MaxCheatKeys]}
    ELSE {}

CheatKeyPress == KeyPressFrom(CheatStreamKeys(Len(typed) + 1))

CheatTick ==
    /\ Len(typed) >= Len(seq)
    /\ TickWithin(MaxCheatTicks, {5000})

CheatNext == CheatKeyPress \/ CheatTick

SpecCheat == Init /\ [][CheatNext]_vars

\* ------------------------------------------------------------ SpecAmbient
\* The ambient animation.  Up to MaxAmbientKeys presses of Up or of key code
\* 0, which key_to_grid does not know, at any point of MaxAmbientTicks render
\* periods at the nominal rate.
AmbientKeys == {KEY_UP, 0}

AmbientKeyPress ==
    /\ Len(typed) < MaxAmbientKeys
    /\ KeyPressFrom(AmbientKeys)

AmbientTick == TickWithin(MaxAmbientTicks, {TICK_RATE_MS})

AmbientNext == AmbientKeyPress \/ AmbientTick

SpecAmbient == Init /\ [][AmbientNext]_vars

\* -------------------------------------------------------------- SpecTimer
\* The step interval late in a run.  reset_snake leaves snake_timer alone, so
\* the interval of a game is 150 less 2 for each food of the games before it,
\* down to 50.  The run is taken up one minute after the start, right after a
\* cheat entry typed in Ambient mode (its first five keys left a ripple each)
\* that followed games with 0, 49 or at least 50 foods, the last of which
\* ended 6 s earlier (5 s of GameOver, 33 periods of Ambient); typed and
\* tick_count count from there.  Then come up to
\* MaxTimerKeys arrow keys and the cheat sequence once more, with render
\* periods, each late enough for a snake step, at any point.
FoodsBefore == {0, 49, 50}

AfterGames(foods, t) ==
    LET s0 == new(GRID_WIDTH, GRID_HEIGHT, 0)
        s1 == [s0 EXCEPT !.snake_timer = IF 150 - 2 * foods > 50
                                          THEN 150 - 2 * foods ELSE 50,
                         !.last_snake_update = t - 6000,
                         !.time_tick = 33,
                         !.input_history = SubSeq(seq, 1, 5),
                         !.ripples = [i \in 1..5 |->
                             LET g == CHOOSE c \in key_to_grid(seq[i]) : TRUE IN
                             [x |-> g[1], y |-> g[2], age |-> 0, max_age |-> 12]]]
    IN  handle_input(s1, seq[6])

TimerInit ==
    /\ now = 60000
    /\ \E foods \in FoodsBefore : app_state \in AfterGames(foods, now)
    /\ typed = <<>>
    /\ tick_count = 0
    /\ lock = "free"
    /\ input_pc = "open"
    /\ event_code = None
    /\ render_pc = "tick"
    /\ dev = 0
    /\ io = "idle"
    /\ pushed = <<>>

TimerStreamKeys(n) ==
    IF n <= MaxTimerKeys THEN ArrowKeys
    ELSE IF n <= MaxTimerKeys + Len(seq) THEN {seq[n - MaxTimerKeys]}
    ELSE {}

TimerKeyPress == KeyPressFrom(TimerStreamKeys(Len(typed) + 1))

TimerTick == TickWithin(MaxTimerTicks, {5000})

TimerNext == TimerKeyPress \/ TimerTick

SpecTimer == TimerInit /\ [][TimerNext]_vars

\* --------------------------------------------------------------- SpecIdle
\* A game left alone.  The input stream is the cheat sequence, typed before
\* the first render period, and up to MaxIdleKeys arrow keys, which may never
\* come.  Render periods follow one another at five times the nominal
\* period, one snake step each, for as long as the game and its GameOver hold
\* last (a period in GameOver mode is one of a hold that is not over), and
\* for MaxIdleTicks periods of the Ambient mode after them; the render loop
\* is never stopped for good (weak fairness of IdleTick).
IdlePeriod == 5 * TICK_RATE_MS

IdleStreamKeys(n) ==
    IF n <= Len(seq) THEN {seq[n]}
    ELSE IF n <= Len(seq) + MaxIdleKeys THEN ArrowKeys
    ELSE {}

IdleKeyPress == KeyPressFrom(IdleStreamKeys(Len(typed) + 1))

IdleTick ==
    /\ Len(typed) >= Len(seq)
    /\ app_state.mode = "Ambient" => app_state.time_tick < MaxIdleTicks
    /\ app_state.mode = "GameOver" =>
          /\ app_state.game_over_timer # None
          /\ now - app_state.game_over_timer[1] < 5000
    /\ TickWithin(tick_count + 1, {IdlePeriod})

IdleNext == IdleKeyPress \/ IdleTick

SpecIdle == Init /\ [][IdleNext]_vars /\ WF_vars(IdleTick)

\* --------------------------------------------------------------- SpecFull
\* The end of a perfect game.  A player who steers the snake round and round
\* a closed tour of the grid never hits anything: the cell ahead of the head
\* is free as long as the body is shorter than the tour, and every food lies
\* on the tour.  The tour: row 0 from (0,0) to (21,0), then the columns 21
\* down to 0 through the rows 1..5, down and up in turn, ending at (0,1).
TourCell(k) ==
    IF k < GRID_WIDTH THEN Pt(k, 0)
    ELSE LET j == (k - GRID_WIDTH) \div (GRID_HEIGHT - 1)
             i == (k - GRID_WIDTH) % (GRID_HEIGHT - 1)
         IN  Pt(GRID_WIDTH - 1 - j, IF j % 2 = 0 THEN 1 + i ELSE GRID_HEIGHT - 1 - i)

TourLen == GRID_WIDTH * GRID_HEIGHT

\* The body of n cells, head first, of a snake on the tour with its head on
\* the tour's cell k.
TourBody(k, n) == [i \in 1..n |-> TourCell((k - (i - 1) + TourLen) % TourLen)]

\* The run is taken up ten minutes after the start, with the snake two cells
\* short of the whole grid, its head on (0,4) going up, the two free cells
\* (0,3) and (0,2) ahead of it and the food on the nearer one; the step
\* interval is at its floor, the window holds the keys of the last six turns
\* and the ripples are those of the cheat entry.  typed and tick_count count
\* from there.  Then come up to MaxFullKeys arrow keys and MaxFullTicks render
\* periods.
FullInit ==
    /\ now = 600000
    /\ app_state =
          [ new(GRID_WIDTH, GRID_HEIGHT, now - TICK_RATE_MS) EXCEPT
              !.mode = "Snake",
              !.input_history = <<KEY_LEFT, KEY_UP, KEY_LEFT, KEY_DOWN, KEY_LEFT, KEY_UP>>,
              !.snake = TourBody(TourLen - 4, TourLen - 2),
              !.food = Pt(0, 3),
              !.direction = Pt(0, -1),
              !.snake_timer = 50,
              !.ripples = [i \in 1..5 |->
                  LET g == CHOOSE c \in key_to_grid(seq[i]) : TRUE IN
                  [x |-> g[1], y |-> g[2], age |-> 0, max_age |-> 12]] ]
    /\ typed = <<>>
    /\ tick_count = 0
    /\ lock = "free"
    /\ input_pc = "open"
    /\ event_code = None
    /\ render_pc = "tick"
    /\ dev = 0
    /\ io = "idle"
    /\ pushed = <<>>

FullKeyPress ==
    /\ Len(typed) < MaxFullKeys
    /\ KeyPressFrom(ArrowKeys)

FullTick == TickWithin(MaxFullTicks, Deltas)

FullNext == FullKeyPress \/ FullTick

SpecFull == FullInit /\ [][FullNext]_vars

\* --------------------------------------------------------------- SpecKeys
\* Steering.  The input stream is the cheat sequence followed by up to
\* MaxDirKeys presses of an arrow key, of W, A, S or D, or of the space bar
\* (57), which steers nothing; the cheat sequence is typed before the first
\* render period, and each render period comes late enough for a snake step.
DirKeys == ArrowKeys \cup {KEY_W, KEY_A, KEY_S, KEY_D, 57}

DirStreamKeys(n) ==
    IF n <= Len(seq) THEN {seq[n]}
    ELSE IF n <= Len(seq) + MaxDirKeys THEN DirKeys
    ELSE {}

DirKeyPress == KeyPressFrom(DirStreamKeys(Len(typed) + 1))

DirTick ==
    /\ Len(typed) >= Len(seq)
    /\ TickWithin(MaxDirTicks, {TICK_RATE_MS, 5000})

DirNext == DirKeyPress \/ DirTick

SpecKeys == Init /\ [][DirNext]_vars

\* --------------------------------------------------------------- SpecMain
\* main(): the input task and the render loop as two processes around the
\* state mutex.  The input stream carries the cheat sequence and then up to
\* MaxMainKeys presses of Up or Down; records that are no key press are read
\* and dropped without a change of state and are left out.  A render period
\* starts the nominal period or a stall of 5 s after the previous one.
MainKeys == {KEY_UP, KEY_DOWN}

MainStreamKeys(n) ==
    IF n <= Len(seq) THEN {seq[n]}
    ELSE IF n <= Len(seq) + MaxMainKeys THEN MainKeys
    ELSE {}

MainDeltas == {TICK_RATE_MS, 5000}

\* The controllers DeviceGroup::sort found, per group.
devices == [keyboards |-> 1, rams |-> 1, mice |-> 1, fans |-> 1]

Rep(kind, n) == [i \in 1..n |-> kind]

\* The RAM sticks pushed on the periods 1, 4, 7, .. (a count from zero).
Frame_from_zero(tc) ==
    Rep("keyboard", devices.keyboards)
    \o (IF (tc - 1) % 3 = 0 THEN Rep("ram", devices.rams) ELSE <<>>)
    \o Rep("mouse", devices.mice)
    \o Rep("fan", devices.fans)

\* The set_leds calls of the period with tick count tc, in program order.
Frame(tc) ==
    Rep("keyboard", devices.keyboards)
    \o (IF tc % 3 = 0 THEN Rep("ram", devices.rams) ELSE <<>>)
    \o Rep("mouse", devices.mice)
    \o Rep("fan", devices.fans)

InputOpen ==
    /\ input_pc = "open"
    /\ input_pc' \in {"read", "exited"}
    /\ UNCHANGED <<app_state, now, typed, tick_count, lock, event_code, render_pc, dev, io, pushed>>

\* read_exact returns a key press record.
InputRead ==
    /\ input_pc = "read"
    /\ \E code \in MainStreamKeys(Len(typed) + 1) :
          /\ event_code' = Some(code)
          /\ typed' = Append(typed, code)
    /\ input_pc' = "lock"
    /\ UNCHANGED <<app_state, now, tick_count, lock, render_pc, dev, io, pushed>>

\* read_exact fails or comes back short: the loop breaks.
InputEnd ==
    /\ input_pc = "read"
    /\ input_pc' = "exited"
    /\ UNCHANGED <<app_state, now, typed, tick_count, lock, event_code, render_pc, dev, io, pushed>>

\* The input task entering handle_input without waiting for the mutex.
InputLock_no_wait ==
    /\ input_pc = "lock"
    /\ lock' = "input"
    /\ input_pc' = "handle"
    /\ UNCHANGED <<app_state, now, typed, tick_count, event_code, render_pc, dev, io, pushed>>

InputLock ==
    /\ input_pc = "lock"
    /\ lock = "free"
    /\ lock' = "input"
    /\ input_pc' = "handle"
    /\ UNCHANGED <<app_state, now, typed, tick_count, event_code, render_pc, dev, io, pushed>>

\* The guard of the input task outliving the if block.
InputHandle_keeps_guard ==
    /\ input_pc = "handle"
    /\ app_state' \in handle_input(app_state, event_code[1])
    /\ event_code' = None
    /\ input_pc' = "read"
    /\ UNCHANGED <<now, typed, tick_count, lock, render_pc, dev, io, pushed>>

\* handle_input runs and the guard is dropped at the end of the if block.
InputHandle ==
    /\ input_pc = "handle"
    /\ app_state' \in handle_input(app_state, event_code[1])
    /\ event_code' = None
    /\ lock' = "free"
    /\ input_pc' = "read"
    /\ UNCHANGED <<now, typed, tick_count, render_pc, dev, io, pushed>>

RenderTick ==
    /\ render_pc = "tick"
    /\ tick_count < MaxMainTicks
    /\ \E d \in MainDeltas : now' = now + d
    /\ tick_count' = tick_count + 1
    /\ render_pc' = "lock_update"
    /\ pushed' = <<>>
    /\ UNCHANGED <<app_state, typed, lock, input_pc, event_code, dev, io>>

RenderLockUpdate ==
    /\ render_pc = "lock_update"
    /\ lock = "free"
    /\ lock' = "render"
    /\ render_pc' = "update"
    /\ UNCHANGED <<app_state, now, typed, tick_count, input_pc, event_code, dev, io, pushed>>

\* update runs and the guard is dropped at the end of the inner block.
RenderUpdate ==
    /\ render_pc = "update"
    /\ app_state' \in update(app_state, now)
    /\ lock' = "free"
    /\ render_pc' = "lock_frame"
    /\ UNCHANGED <<now, typed, tick_count, input_pc, event_code, dev, io, pushed>>

\* The second lock of the period; its guard lives to the end of the loop body.
RenderLockFrame ==
    /\ render_pc = "lock_frame"
    /\ lock = "free"
    /\ lock' = "render"
    /\ render_pc' = "push"
    /\ dev' = 0
    /\ UNCHANGED <<app_state, now, typed, tick_count, input_pc, event_code, io, pushed>>

\* The colors of the next device are computed and set_leds is called.
RenderPush ==
    /\ render_pc = "push"
    /\ io = "idle"
    /\ dev < Len(Frame(tick_count))
    /\ io' = "pending"
    /\ pushed' = Append(pushed, Frame(tick_count)[dev + 1])
    /\ UNCHANGED <<app_state, now, typed, tick_count, lock, input_pc, event_code, render_pc, dev>>

\* The awaited set_leds call returns; its result, Ok or Err, is dropped.
RenderPushed ==
    /\ io = "pending"
    /\ io' = "idle"
    /\ dev' = dev + 1
    /\ UNCHANGED <<app_state, now, typed, tick_count, lock, input_pc, event_code, render_pc, pushed>>

\* The end of the loop body drops the guard taken by RenderLockFrame.
RenderEndPeriod ==
    /\ render_pc = "push"
    /\ io = "idle"
    /\ dev = Len(Frame(tick_count))
    /\ lock' = "free"
    /\ render_pc' = "tick"
    /\ dev' = 0
    /\ UNCHANGED <<app_state, now, typed, tick_count, input_pc, event_code, io, pushed>>

MainNext ==
    \/ InputOpen \/ InputRead \/ InputEnd \/ InputLock \/ InputHandle
    \/ RenderTick \/ RenderLockUpdate \/ RenderUpdate \/ RenderLockFrame
    \/ RenderPush \/ RenderPushed \/ RenderEndPeriod

SpecMain == Init /\ [][MainNext]_vars

\* The steps of the render loop that need nothing but the render task itself
\* (and, for the two locks, a free mutex): every step but the return of a
\* set_leds call, which is the device's.
RenderOwnStep ==
    \/ RenderTick \/ RenderLockUpdate \/ RenderUpdate \/ RenderLockFrame
    \/ RenderPush \/ RenderEndPeriod

RenderStep == RenderOwnStep \/ RenderPushed

\* SpecMain with the render task scheduled whenever it can step and every
\* set_leds call returning (tokio polls a ready task; the devices answer).
\* Nothing is asked of the input task or of the input stream.
SpecMainFair == SpecMain /\ WF_vars(RenderStep)

\* ================================================================= claims
EndsWith(t, suffix) ==
    /\ Len(t) >= Len(suffix)
    /\ SubSeq(t, Len(t) - Len(suffix) + 1, Len(t)) = suffix

\* Steps of the AppState specifications: a handle_input call, an update call.
IsKeyPress == typed' # typed
IsTick == tick_count' = tick_count + 1

\* The input history the presses `t`, fed to a fresh state, leave behind.
RECURSIVE history_after(_)
history_after(t) ==
    IF t = <<>> THEN <<>>
    ELSE LET h == push_history(history_after(SubSeq(t, 1, Len(t) - 1)), t[Len(t)])
         IN  IF h = seq THEN <<>> ELSE h

CheatEntered(s) ==
    /\ s.mode = "Snake"
    /\ s.snake = <<Pt(5, 3), Pt(4, 3), Pt(3, 3)>>
    /\ s.direction = Pt(1, 0)
    /\ s.input_history = <<>>

\* C1 (as stated): in any reachable state, whatever the mode and the history,
\* right after the sixth of six consecutive handle_input calls with the codes
\* Up, Down, Left, Right, Up, Down the mode is Snake, the body is
\* (5,3),(4,3),(3,3), the direction is (1,0) and the history is empty.
C1_AnyHistory ==
    [][ (IsKeyPress /\ EndsWith(typed', seq)) => CheatEntered(app_state') ]_vars

\* The history before the first of the last six presses ends with
\* Up, Down, Left, Right.
HalfEntered(t) ==
    EndsWith(history_after(SubSeq(t, 1, Len(t) - Len(seq))),
             <<KEY_UP, KEY_DOWN, KEY_LEFT, KEY_RIGHT>>)

\* C1 (amended): the same, provided the input history before the first of
\* the six calls does not end with Up, Down, Left, Right (when it does, the
\* second call already completes the cheat sequence and clears the history,
\* and the last four calls are ordinary input).
C1_CheatEnters ==
    [][ (IsKeyPress /\ EndsWith(typed', seq) /\ ~HalfEntered(typed'))
            => CheatEntered(app_state') ]_vars

\* The second entry of the stream has completed, after a GameOver, from a
\* history that was not empty.
C1_Witness ==
    /\ Len(typed) = 2 * Len(seq) + MaxCheatKeys
    /\ ~HalfEntered(typed)
    /\ app_state.game_over_timer # None
    /\ tick_count = MaxCheatTicks
    /\ CheatEntered(app_state)

NewHead(s) == Pt(s.snake[1].x + s.direction.x, s.snake[1].y + s.direction.y)

InGrid(s, p) == 0 <= p.x /\ p.x < s.width /\ 0 <= p.y /\ p.y < s.height

\* An update call in Snake mode that finds the step interval elapsed.
StepDue ==
    /\ IsTick
    /\ app_state.mode = "Snake"
    /\ now' - app_state.last_snake_update >= app_state.snake_timer

Illegal(s) == ~InGrid(s, NewHead(s)) \/ Contains(s.snake, NewHead(s))

\* C2: whatever keys arrive between two snake steps, the new head a step
\* computes is never the cell of the second body segment (the snake never
\* reverses into itself).
C2_NoReversal ==
    [][ StepDue => NewHead(app_state) # app_state.snake[2] ]_vars

\* C3: a snake step whose new head is outside the grid or on the body sets
\* mode = GameOver and the GameOver timestamp and leaves body, food, direction
\* and step interval as they were; a step whose new head is in the grid and
\* off the body does not change the mode.
C3_IllegalStepEndsGame ==
    [][ StepDue =>
          IF Illegal(app_state)
          THEN /\ app_state'.mode = "GameOver"
               /\ app_state'.game_over_timer = Some(now')
               /\ app_state'.snake = app_state.snake
               /\ app_state'.food = app_state.food
               /\ app_state'.direction = app_state.direction
               /\ app_state'.snake_timer = app_state.snake_timer
          ELSE app_state'.mode = app_state.mode ]_vars

\* The game ended on a legal turn into the snake's own tail.
C3_Witness ==
    /\ app_state.mode = "GameOver"
    /\ InGrid(app_state, NewHead(app_state))
    /\ NewHead(app_state) = app_state.snake[Len(app_state.snake)]
    /\ Len(app_state.snake) >= 4

\* C4: an update call in GameOver mode sets mode = Ambient and clears the
\* GameOver timestamp if and only if at least 5 s have passed since GameOver
\* was entered, and otherwise changes nothing; nothing but such a call takes
\* the mode from GameOver to Ambient.
C4_GameOverHold ==
    [][ /\ (IsTick /\ app_state.mode = "GameOver") =>
              IF now' - app_state.game_over_timer[1] >= 5000
              THEN /\ app_state'.mode = "Ambient"
                   /\ app_state'.game_over_timer = None
              ELSE app_state' = app_state
        /\ (app_state.mode = "GameOver" /\ app_state'.mode = "Ambient") =>
              /\ IsTick
              /\ now' - app_state.game_over_timer[1] >= 5000 ]_vars

\* A game was played and lost, and the hold has returned to Ambient.
C4_Witness ==
    /\ app_state.mode = "Ambient"
    /\ app_state.snake # <<>>
    /\ app_state.game_over_timer = None
    /\ tick_count >= 2

\* C5: whenever the snake body is not empty, the food is a cell of the grid
\* and no cell of the body.
C5_FoodOffSnake ==
    app_state.snake # <<>> =>
        /\ InGrid(app_state, app_state.food)
        /\ ~Contains(app_state.snake, app_state.food)

\* The snake has eaten twice, so the food has been respawned twice.
C5_Witness ==
    /\ Len(app_state.snake) = 5
    /\ app_state.snake_timer = 146

NoOverlap(body) ==
    \A i, j \in 1..Len(body) : i # j => body[i] # body[j]

\* C6: the body never holds a cell twice; a successful step onto the food
\* prepends the new head and keeps the tail (length + 1), any other
\* successful step prepends the new head and drops the tail cell.
C6_BodyGrowth ==
    /\ [] NoOverlap(app_state.snake)
    /\ [][ (StepDue /\ ~Illegal(app_state)) =>
             IF NewHead(app_state) = app_state.food
             THEN app_state'.snake = <<NewHead(app_state)>> \o app_state.snake
             ELSE app_state'.snake =
                    <<NewHead(app_state)>>
                    \o SubSeq(app_state.snake, 1, Len(app_state.snake) - 1) ]_vars

\* The snake has grown by one cell and then moved on without growing.
C6_Witness ==
    /\ app_state.mode = "Snake"
    /\ Len(app_state.snake) = 4
    /\ app_state.snake[4] # Pt(3, 3)
    /\ app_state.snake_timer = 148

\* Whether handle_input(code) on state s finds the cheat sequence.
CompletesCheat(s, code) == push_history(s.input_history, code) = seq

AddsOneRipple(s, t) ==
    /\ Len(t.ripples) = Len(s.ripples) + 1
    /\ SubSeq(t.ripples, 1, Len(s.ripples)) = s.ripples
    /\ t.ripples[Len(t.ripples)].age = 0
    /\ t.ripples[Len(t.ripples)].max_age = 12

\* The ripples an Ambient update leaves: every ripple one tick older, without
\* those whose age has reached max_age.
Survivors(ripples) ==
    SelectSeq([i \in 1..Len(ripples) |-> [ripples[i] EXCEPT !.age = @ + 1]],
              LAMBDA r : r.age < r.max_age)

OnlyExpiryRemoves ==
    /\ (IsTick /\ app_state.mode = "Ambient") =>
          app_state'.ripples = Survivors(app_state.ripples)
    /\ (~IsKeyPress /\ ~(IsTick /\ app_state.mode = "Ambient")) =>
          app_state'.ripples = app_state.ripples
    /\ (IsKeyPress /\ app_state.mode # "Ambient") =>
          app_state'.ripples = app_state.ripples

\* C8 (as stated): every handle_input call made in Ambient mode adds exactly
\* one ripple, of age 0 and max_age 12, and nothing but expiry in an Ambient
\* tick removes a ripple or otherwise changes the set.
C8_EveryAmbientPress ==
    [][ /\ (IsKeyPress /\ app_state.mode = "Ambient") =>
              AddsOneRipple(app_state, app_state')
        /\ OnlyExpiryRemoves ]_vars

\* C8 (amended): every handle_input call made in Ambient mode adds exactly
\* one ripple, of age 0 and max_age 12, except the call that completes the
\* cheat sequence, which adds none and leaves the ripples as they are;
\* nothing but expiry in an Ambient tick removes a ripple or otherwise
\* changes the set.
C8_AmbientPressAddsRipple ==
    [][ /\ (IsKeyPress /\ app_state.mode = "Ambient") =>
              IF CompletesCheat(app_state, typed'[Len(typed')])
              THEN app_state'.ripples = app_state.ripples
              ELSE AddsOneRipple(app_state, app_state')
        /\ OnlyExpiryRemoves ]_vars

\* Five ripples from typing the cheat, kept through the game, and a sixth
\* from a key pressed back in Ambient mode.
C8_Witness ==
    /\ app_state.mode = "Ambient"
    /\ Len(app_state.ripples) = 6
    /\ app_state.ripples[6].age = 0
    /\ app_state.ripples[5].age > 0

\* C9: an update call in Snake mode changes nothing while less than the step
\* interval has passed since the last-step timestamp; otherwise it performs
\* exactly one snake step (the game ends, or the head moves by one cell),
\* however long it has been, and sets the last-step timestamp to the time of
\* the call.
C9_OneStepPerDueTick ==
    [][ (IsTick /\ app_state.mode = "Snake") =>
          IF now' - app_state.last_snake_update < app_state.snake_timer
          THEN app_state' = app_state
          ELSE /\ app_state'.last_snake_update = now'
               /\ \/ /\ app_state'.mode = "GameOver"
                     /\ app_state'.snake = app_state.snake
                  \/ /\ app_state'.mode = "Snake"
                     /\ app_state'.snake[1] = NewHead(app_state)
                     /\ \/ Tail(app_state'.snake) = app_state.snake
                        \/ Tail(app_state'.snake) =
                             SubSeq(app_state.snake, 1, Len(app_state.snake) - 1) ]_vars

\* After a step, a render period came too early for the next one.
C9_Witness ==
    /\ app_state.mode = "Snake"
    /\ app_state.last_snake_update > 0
    /\ now > app_state.last_snake_update
    /\ now - app_state.last_snake_update < app_state.snake_timer

\* C7: every live ripple has age < max_age = 12; an update call in Ambient
\* mode makes every ripple one tick older and removes it in the tick in which
\* its age reaches 12, so a ripple outlives at most 11 Ambient ticks.
C7_RipplesExpire ==
    /\ [] (\A i \in 1..Len(app_state.ripples) :
              /\ app_state.ripples[i].max_age = 12
              /\ app_state.ripples[i].age < app_state.ripples[i].max_age)
    /\ [][ (IsTick /\ app_state.mode = "Ambient") =>
              /\ app_state'.ripples = Survivors(app_state.ripples)
              /\ \A i \in 1..Len(app_state.ripples) :
                    app_state.ripples[i].age = 11 =>
                        ~Contains(app_state'.ripples,
                                  [app_state.ripples[i] EXCEPT !.age = 12]) ]_vars

\* One ripple has expired and a later one is in its last tick.
C7_Witness ==
    /\ Len(typed) = 2
    /\ Len(app_state.ripples) = 1
    /\ app_state.ripples[1].age = 11

\* C10: every set_leds call is in flight only while the render task does not
\* hold the state lock.
C10_PushOutsideLock ==
    io = "pending" => lock # "render"

\* C11: the render task never waits on device I/O: while a set_leds call is
\* in flight (slow, failing or never completing) the render task can still
\* go on by itself to the rest of the frame and to the next tick's update.
C11_NeverWaitsOnIO ==
    io = "pending" => ENABLED RenderOwnStep

\* C12: handle_input and update never run at the same time, and neither runs
\* while the render task computes the colors of a frame, so that all colors
\* of one frame come from one state left by complete calls: the state does
\* not change from the first device of a frame to the last.
C12_FrameFromOneState ==
    /\ [](~(input_pc = "handle" /\ render_pc \in {"update", "push"}))
    /\ [](input_pc = "handle" => lock = "input")
    /\ [](render_pc \in {"update", "push"} => lock = "render")
    /\ [][render_pc = "push" => app_state' = app_state]_vars

\* The input task waits for the mutex with the seventh key press while the
\* render task is in the middle of a frame of a running game.
C12_Witness ==
    /\ render_pc = "push"
    /\ dev > 0
    /\ input_pc = "lock"
    /\ app_state.mode = "Snake"

Count(kind) == Cardinality({i \in 1..Len(pushed) : pushed[i] = kind})

\* C14: every render period that runs to its end has pushed each keyboard
\* and each mouse once; it has pushed the RAM sticks when its tick count
\* (from 1) is a multiple of 3 and has not pushed them otherwise.
C14_PushCadence ==
    /\ [][io' = "pending" /\ io = "idle" /\ pushed'[Len(pushed')] = "ram" =>
             tick_count % 3 = 0]_vars
    /\ [][render_pc = "push" /\ render_pc' = "tick" =>
            /\ Count("keyboard") = devices.keyboards
            /\ Count("mouse") = devices.mice
            /\ Count("ram") = (IF tick_count \in {3, 6, 9} THEN devices.rams ELSE 0)]_vars

\* The third render period has pushed keyboard, RAM and mouse.
C14_Witness ==
    /\ tick_count = 3
    /\ render_pc = "push"
    /\ Count("keyboard") = 1
    /\ Count("ram") = 1
    /\ Count("mouse") = 1

\* The vector a key code asks for, None for a code that steers nothing.
Wanted(code) ==
    CASE code \in {KEY_UP, KEY_W} -> Some(Pt(0, -1))
      [] code \in {KEY_DOWN, KEY_S} -> Some(Pt(0, 1))
      [] code \in {KEY_LEFT, KEY_A} -> Some(Pt(-1, 0))
      [] code \in {KEY_RIGHT, KEY_D} -> Some(Pt(1, 0))
      [] OTHER -> None

Opposite(d) == Pt(0 - d.x, 0 - d.y)

\* C15: a key press handled in Snake mode that does not complete the cheat
\* sequence sets the direction to the vector of an Up/W, Down/S, Left/A or
\* Right/D key unless that vector is the opposite of the current direction,
\* leaves the direction alone for the opposite vector and for any other key,
\* and leaves body, food, mode and step interval alone.
C15_Steering ==
    [][(IsKeyPress /\ app_state.mode = "Snake"
          /\ ~CompletesCheat(app_state, typed'[Len(typed')])) =>
         LET w == Wanted(typed'[Len(typed')]) IN
         /\ app_state'.direction =
               (IF w # None /\ w[1] # Opposite(app_state.direction)
                THEN w[1] ELSE app_state.direction)
         /\ app_state'.snake = app_state.snake
         /\ app_state'.food = app_state.food
         /\ app_state'.mode = app_state.mode
         /\ app_state'.snake_timer = app_state.snake_timer]_vars

\* W turned the fresh snake upwards and S, the opposite, was then refused.
C15_Witness ==
    /\ Len(typed) = Len(seq) + 2
    /\ typed[Len(seq) + 1] = KEY_W
    /\ typed[Len(seq) + 2] = KEY_S
    /\ tick_count = 0
    /\ app_state.mode = "Snake"
    /\ app_state.direction = Pt(0, -1)

\* A successful step onto the food.
Eats ==
    /\ StepDue
    /\ ~Illegal(app_state)
    /\ NewHead(app_state) = app_state.food

\* C16: the step interval is always in 50..150 and never grows, a cheat
\* restart included; it changes only in a step onto the food taken while it
\* is above 50, and such a step takes 2 off it.
C16_StepInterval ==
    /\ [](app_state.snake_timer >= 50 /\ app_state.snake_timer <= 150)
    /\ [][app_state'.snake_timer <= app_state.snake_timer]_vars
    /\ [][app_state'.snake_timer # app_state.snake_timer =>
             Eats /\ app_state.snake_timer > 50]_vars
    /\ [][(Eats /\ app_state.snake_timer > 50) =>
             app_state'.snake_timer = app_state.snake_timer - 2]_vars
    /\ [][(IsKeyPress /\ CompletesCheat(app_state, typed'[Len(typed')])) =>
             app_state'.snake_timer = app_state.snake_timer]_vars

\* Two foods eaten in this game, the second of them (at least) with the step
\* interval at its floor.
C16_Witness ==
    /\ app_state.mode = "Snake"
    /\ Len(app_state.snake) = 5
    /\ app_state.snake_timer = 50
    /\ tick_count = 2

\* C17: the mode changes to Snake only in a key press whose six-entry window
\* is the cheat sequence, from Snake only to GameOver and only in a tick
\* whose snake step is due and illegal, and from GameOver only to Ambient
\* and only in a tick; no other change of mode happens (none from Ambient to
\* GameOver, none from Snake to Ambient), and the input history never holds
\* more than 6 codes.
C17_ModeChanges ==
    /\ [](Len(app_state.input_history) <= 6)
    /\ [][app_state'.mode # app_state.mode =>
            \/ /\ app_state'.mode = "Snake"
               /\ IsKeyPress
               /\ Len(push_history(app_state.input_history, typed'[Len(typed')])) = 6
               /\ CompletesCheat(app_state, typed'[Len(typed')])
            \/ /\ app_state.mode = "Snake"
               /\ app_state'.mode = "GameOver"
               /\ StepDue
               /\ Illegal(app_state)
            \/ /\ app_state.mode = "GameOver"
               /\ app_state'.mode = "Ambient"
               /\ IsTick]_vars

\* Back in Ambient mode after a game, with a full window of six codes that
\* are not the cheat sequence.
C17_Witness ==
    /\ app_state.mode = "Ambient"
    /\ app_state.snake # <<>>
    /\ Len(app_state.input_history) = 6
    /\ Len(typed) > Len(seq) + MaxCheatKeys

\* C19: in Snake mode the body has at least 3 cells, and in GameOver mode the
\* time GameOver was entered is set.
C19_ModeData ==
    /\ app_state.mode = "Snake" => Len(app_state.snake) >= 3
    /\ app_state.mode = "GameOver" => app_state.game_over_timer # None

\* GameOver, entered by a snake of three cells at the time of the last step.
C19_Witness ==
    /\ app_state.mode = "GameOver"
    /\ Len(app_state.snake) = 3
    /\ app_state.game_over_timer = Some(app_state.last_snake_update)
    /\ now > app_state.last_snake_update

\* The cells of the grid that are not on the body.
FreeCells(s) ==
    { p \in { Pt(px, py) : px \in 0..(s.width - 1), py \in 0..(s.height - 1) } :
        ~Contains(s.snake, p) }

\* C18: whenever the next snake step is a step onto the food, and so calls
\* spawn_food, the grid has a cell off the body (the new head included) for
\* the rejection loop to find.
C18_RespawnFindsCell ==
    (app_state.mode = "Snake" /\ ~Illegal(app_state)
        /\ NewHead(app_state) = app_state.food) =>
       FreeCells([app_state EXCEPT !.snake = <<NewHead(app_state)>> \o @]) # {}

\* C20: with render periods that keep coming and key presses that stop, the
\* run ends up in Ambient mode and stays there.
C20_BackToAmbient ==
    <>[](app_state.mode = "Ambient")

\* Back in Ambient mode after a game in which no key was pressed: the snake
\* ran into the right wall.
C20_Witness ==
    /\ app_state.mode = "Ambient"
    /\ Len(typed) = Len(seq)
    /\ app_state.snake # <<>>
    /\ app_state.snake[1].x = GRID_WIDTH - 1
    /\ app_state.time_tick = MaxIdleTicks

====
